---- MODULE Spec2Model ----
(***************************************************************************)
(* A model of pins_iterate.py: the overlay renderer (draw_90_degree_lines),*)
(* the batch annotator (process_images_with_configurations), the grid      *)
(* composer (create_grid_image), the page renderer (create_pdf_with_grids) *)
(* and the "Generate PDF" handler that sequences them.                     *)
(*                                                                         *)
(* Python values are represented as follows.                               *)
(*   None               the empty tuple <<>>                               *)
(*   an optional value  None or the one-element tuple <<v>>                *)
(*   a dict             a function whose DOMAIN is the set of keys present *)
(*   a list             a sequence                                         *)
(*   a float            an exact rational <<numerator, denominator>>       *)
(* Normalised coordinates are integers in tenths (5 is 0.5); image sizes   *)
(* are multiples of 10 pixels, so every pixel coordinate is an integer.    *)
(***************************************************************************)
EXTENDS Integers, Sequences, FiniteSets, TLC

VARIABLES
    pc,            \* position of the Generate PDF handler
    api,           \* what the remote service holds for the round
    fonts,         \* the font names ImageFont.truetype can load here
    holes_data,    \* the DataFrame of the round, a sequence of rows
    front_grid,    \* Some(grid image) or None
    back_grid,     \* Some(grid image) or None
    pdf,           \* Some(pages of pin_sheet.pdf) or None
    messages,      \* what st.error / st.warning / st.success displayed
    raised,        \* the exception that left the handler, or None
    disk,          \* the downloads folder: hole number -> Some(file) or None
    front_nine,    \* processed_images[:9]
    back_nine,     \* processed_images[9:]
    call,          \* arguments of a function called on its own
    ret            \* its result, or None while it has not run

vars == <<pc, api, fonts, holes_data, disk, front_nine, back_nine,
          front_grid, back_grid, pdf, messages, raised, call, ret>>

handlerVars == <<pc, api, fonts, holes_data, disk, front_nine, back_nine,
                 front_grid, back_grid, pdf, messages, raised>>

---------------------------------------------------------------------------
(* Bounds of the model *)

\* image widths and heights are 10, 20, .. 10 * MaxDim pixels
MaxDim == 2

\* source orderings: the descending and ascending lists rotated by 0..MaxRot
MaxRot == 2

---------------------------------------------------------------------------
(* Python values *)

None == <<>>

Some(v) == <<v>>

\* bool(v) for None, dicts and optional dicts: None and {} are falsy
Truthy(v) == v # None /\ v # Some(None)

\* every dict with keys among K and values in V
Dicts(K, V) == UNION {[S -> V] : S \in SUBSET K}

\* the outcome of a call: the value returned, or the exception raised
Return(v) == [exc |-> None, value |-> Some(v)]

Raise(e) == [exc |-> Some(e), value |-> None]

Min(a, b) == IF a <= b THEN a ELSE b

Max(a, b) == IF a >= b THEN a ELSE b

ImageSizes == {<<10 * w, 10 * h>> : w \in 1..MaxDim, h \in 1..MaxDim}

\* normalised points, in tenths
Points == {<<0, 0>>, <<5, 10>>}

\* float(p) * img_width for a coordinate p in tenths
Pixel(p, dim) == (p * dim) \div 10

\* int(v) of the non-negative half-integer v2 / 2
IntHalf(v2) == v2 \div 2

---------------------------------------------------------------------------
(* Green configurations *)

\* a zone: a dict that may hold an origin and an extent
ZoneDicts == Dicts({"origin", "extent"}, Points)

PinDicts == Dicts({"origin"}, Points)

OptZones == {None} \cup {Some(z) : z \in ZoneDicts}

OptPins == {None} \cup {Some(z) : z \in PinDicts}

\* the value of 'green_configuration': each zone key absent, null or a dict
GreenConfigurations ==
    {h @@ r : h \in Dicts({"hole_location"}, OptPins),
              r \in Dicts({"approach", "go_for", "crosshairs"}, OptZones)}

\* dict.get(key): None when the key is absent
Get(d, k) == IF k \in DOMAIN d THEN d[k] ELSE None

\* zone.get(key) of an optional zone known to be truthy
ZoneGet(z, k) == Get(z[1], k)

ShapeOp(shape, xy, fill, outline, width) ==
    [shape |-> shape, xy |-> xy, fill |-> fill, outline |-> outline,
     width |-> width]

\* lines 157-160: the pin marker
PinOps(hole_location, W, H) ==
    IF Truthy(hole_location) /\ Truthy(ZoneGet(hole_location, "origin"))
    THEN LET hole_x == Pixel(ZoneGet(hole_location, "origin")[1], W)
             hole_y == Pixel(ZoneGet(hole_location, "origin")[2], H)
         IN  <<ShapeOp("ellipse",
                       <<hole_x - 5, hole_y - 5, hole_x + 5, hole_y + 5>>,
                       "black", "", 1)>>
    ELSE <<>>

\* lines 163-171 and 174-182: an open bracket at the origin's own x and y
BracketOps(zone, color, W, H) ==
    IF Truthy(zone) /\ Truthy(ZoneGet(zone, "origin"))
                    /\ Truthy(ZoneGet(zone, "extent"))
    THEN LET x1 == Pixel(ZoneGet(zone, "origin")[1], W)
             y1 == Pixel(ZoneGet(zone, "origin")[2], H)
             x2 == Pixel(ZoneGet(zone, "extent")[1], W)
             y2 == Pixel(ZoneGet(zone, "extent")[2], H)
             x_start == Min(x1, x2)
             x_end == Max(x1, x2)
             y_start == Min(y1, y2)
             y_end == Max(y1, y2)
         IN  <<ShapeOp("line", <<x1, y_start, x1, y_end>>, color, "", 3),
               ShapeOp("line", <<x_start, y1, x_end, y1>>, color, "", 3)>>
    ELSE <<>>

\* lines 185-200: inscribed circle and the two centre lines
CrosshairOps(zone, W, H) ==
    IF Truthy(zone) /\ Truthy(ZoneGet(zone, "origin"))
                    /\ Truthy(ZoneGet(zone, "extent"))
    THEN LET origin_x == Pixel(ZoneGet(zone, "origin")[1], W)
             origin_y == Pixel(ZoneGet(zone, "origin")[2], H)
             extent_x == Pixel(ZoneGet(zone, "extent")[1], W)
             extent_y == Pixel(ZoneGet(zone, "extent")[2], H)
             x_start == Min(origin_x, extent_x)
             x_end == Max(origin_x, extent_x)
             y_start == Min(origin_y, extent_y)
             y_end == Max(origin_y, extent_y)
             \* twice the centre and twice the radius
             cx2 == x_start + x_end
             cy2 == y_start + y_end
             r2 == Min(x_end - x_start, y_end - y_start)
         IN  <<ShapeOp("ellipse",
                       <<IntHalf(cx2 - r2), IntHalf(cy2 - r2),
                         IntHalf(cx2 + r2), IntHalf(cy2 + r2)>>,
                       "", "red", 2),
               ShapeOp("line", <<x_start, IntHalf(cy2), x_end, IntHalf(cy2)>>,
                       "red", "", 2),
               ShapeOp("line", <<IntHalf(cx2), y_start, IntHalf(cx2), y_end>>,
                       "red", "", 2)>>
    ELSE <<>>

\* An image: the hole whose green it shows, its size, what was drawn on it.
NewImage(hole, size) == [hole |-> hole, size |-> size, ops |-> <<>>]

\* lines 143-202.  config is the parsed response of the configuration
\* fetch; config['green_configuration'] and green_config['hole_location']
\* are subscripts and raise KeyError on an absent key, the other three zones
\* are read with .get.
draw_90_degree_lines(image, config) ==
    IF "green_configuration" \notin DOMAIN config
    THEN Raise("KeyError")
    ELSE LET green_config == config["green_configuration"]
             W == image.size[1]
             H == image.size[2]
         IN  IF "hole_location" \notin DOMAIN green_config
             THEN Raise("KeyError")
             ELSE Return([image EXCEPT !.ops =
                     @ \o PinOps(green_config["hole_location"], W, H)
                       \o BracketOps(Get(green_config, "approach"),
                                     "green", W, H)
                       \o BracketOps(Get(green_config, "go_for"),
                                     "orange", W, H)
                       \o CrosshairOps(Get(green_config, "crosshairs"),
                                       W, H)])

---------------------------------------------------------------------------
(* draw_90_degree_lines called on its own *)

IdleHandler ==
    /\ pc = "off"
    /\ api = None
    /\ fonts = {}
    /\ holes_data = None
    /\ disk = None
    /\ front_nine = None
    /\ back_nine = None
    /\ front_grid = None
    /\ back_grid = None
    /\ pdf = None
    /\ messages = <<>>
    /\ raised = None

InitDraw ==
    /\ IdleHandler
    /\ \E gc \in GreenConfigurations, size \in ImageSizes :
          call = [fn |-> "draw_90_degree_lines",
                  image |-> NewImage(1, size),
                  config |-> [green_configuration |-> gc]]
    /\ ret = None

DrawLines ==
    /\ pc = "off"
    /\ call.fn = "draw_90_degree_lines"
    /\ ret = None
    /\ ret' = Some(draw_90_degree_lines(call.image, call.config))
    /\ UNCHANGED <<handlerVars, call>>

NextDraw == DrawLines

SpecDraw == InitDraw /\ [][NextDraw]_vars

---------------------------------------------------------------------------
(* create_grid_image *)

\* what st.error, st.warning or st.success displays; hole is 0 when the
\* text names no hole
Message(level, text, hole) == [level |-> level, text |-> text, hole |-> hole]

\* line 226: the defaults of grid_size and margin_size
grid_size == 3

margin_size == 20

\* line 249: the fonts tried, in this order
FontNames ==
    <<"Arial Bold", "DejaVuSans-Bold",
      "/usr/share/fonts/truetype/dejavu/DejaVuSans-Bold.ttf">>

Unbound == "<unbound>"

\* lines 247-258: the first font of the list that loads.  A font that does
\* not load raises inside the inner try, whose bare except continues the
\* loop, so the outer except (load_default) is reached by no exception:
\* when no font loads the name font is left unbound.
RECURSIVE LoadFont(_, _)
LoadFont(installed, k) ==
    IF k > Len(FontNames) THEN Unbound
    ELSE IF FontNames[k] \in installed THEN FontNames[k]
    ELSE LoadFont(installed, k + 1)

\* line 233: [img for img in images if img is not None]
valid_images(images) == SelectSeq(images, LAMBDA img : img # None)

\* image_idx with the back nine reduced modulo 9 instead of by 10
image_idx_mod(hole_number) ==
    IF hole_number <= 9 THEN hole_number - 1 ELSE hole_number % 9

\* line 270: the index into images of the hole numbered hole_number
image_idx(hole_number) ==
    IF hole_number <= 9 THEN hole_number - 1 ELSE hole_number - 10

\* CellPosition with col and row exchanged: a row-major layout
CellPositionRowMajor(idx, image_width, image_height, N, M) ==
    LET col == idx % N
        row == idx \div N
    IN  <<M + col * (image_width + M), M + row * (image_height + M)>>

\* lines 263-267: the top-left pixel of slot idx (0-based)
CellPosition(idx, image_width, image_height, N, M) ==
    LET col == idx \div N
        row == idx % N
    IN  <<M + col * (image_width + M), M + row * (image_height + M)>>

\* line 272: image_idx < len(images) and images[image_idx]
\* (images is 0-based in the code, 1-based here)
SlotFilled(images, hole_number) ==
    /\ image_idx(hole_number) < Len(images)
    /\ images[image_idx(hole_number) + 1] # None

\* lines 273-299: what one iteration pastes and draws for a filled slot
GridCell(images, idx, hole_number, image_width, image_height, N, M, font) ==
    LET pos == CellPosition(idx, image_width, image_height, N, M)
        number_margin == 20
        circle_radius == 30
        text_position == <<pos[1] + number_margin, pos[2] + number_margin>>
    IN  [idx |-> idx,
         image |-> images[image_idx(hole_number) + 1][1],
         position |-> pos,
         circle |-> <<text_position[1] - circle_radius,
                      text_position[2] - circle_radius,
                      text_position[1] + circle_radius,
                      text_position[2] + circle_radius>>,
         text |-> hole_number,
         text_position |-> text_position,
         font |-> font]

\* lines 261-299: the cells of slots k.. of hole_numbers, in loop order
RECURSIVE GridCells(_, _, _, _, _, _, _, _)
GridCells(images, hole_numbers, k, image_width, image_height, N, M, font) ==
    IF k > Len(hole_numbers) THEN <<>>
    ELSE (IF SlotFilled(images, hole_numbers[k])
          THEN <<GridCell(images, k - 1, hole_numbers[k],
                          image_width, image_height, N, M, font)>>
          ELSE <<>>)
         \o GridCells(images, hole_numbers, k + 1,
                      image_width, image_height, N, M, font)

\* lines 238-301: the grid of a list that holds a valid image.  Reading
\* the unbound font at the first badge (line 292) raises UnboundLocalError.
ComposeGrid(images, hole_numbers, N, M, installed) ==
    CHOOSE result \in
       {IF cells # <<>> /\ cells[1].font = Unbound
        THEN [out |-> Raise("UnboundLocalError"), errors |-> <<>>]
        ELSE [out |-> Return(Some(
                 [size |-> <<size[1] * N + M * (N + 1),
                             size[2] * N + M * (N + 1)>>,
                  cells |-> cells])),
              errors |-> <<>>]
        : size \in {valid_images(images)[1][1].size},
          cells \in {GridCells(images, hole_numbers, 1,
                               valid_images(images)[1][1].size[1],
                               valid_images(images)[1][1].size[2],
                               N, M, LoadFont(installed, 1))}}
       : TRUE

\* create_grid_image without the empty check of lines 234-236: a list with
\* no valid image gives a blank canvas
create_grid_image_blank(images, hole_numbers, N, M, installed) ==
    IF valid_images(images) = <<>>
    THEN [out |-> Return(Some([size |-> <<M * (N + 1), M * (N + 1)>>,
                               cells |-> <<>>])),
          errors |-> <<>>]
    ELSE ComposeGrid(images, hole_numbers, N, M, installed)

\* lines 226-301.  images is a list of Some(image) or None.  The result is
\* the outcome of the call together with what st.error displayed; the value
\* returned is None or Some(grid image).
create_grid_image(images, hole_numbers, N, M, installed) ==
    IF valid_images(images) = <<>>
    THEN [out |-> Return(None),
          errors |-> <<Message("error", "No valid images to create a grid.",
                               0)>>]
    ELSE ComposeGrid(images, hole_numbers, N, M, installed)

\* range(a, b) as a list
Range(a, b) == [i \in 1..(b - a) |-> a + i - 1]

---------------------------------------------------------------------------
(* create_grid_image called on its own *)

\* line 433: the length of a nine
NINE == 9

\* the image list of len entries in which the entries of present are
\* images and the others are None; entry k shows hole first + k - 1.  The
\* images measure size, but for entry devAt (0 for none), which measures
\* devSize: the greens are downloaded one by one and nothing makes their
\* images agree in size.
ImageList(len, present, first, size, devAt, devSize) ==
    [k \in 1..len |->
        IF k \in present
        THEN Some(NewImage(first + k - 1,
                           IF k = devAt THEN devSize ELSE size))
        ELSE None]

InitGrid ==
    /\ IdleHandler
    /\ \E len \in 0..NINE, first \in {1, NINE + 1}, size \in ImageSizes,
          M \in {0, margin_size},
          installed \in SUBSET {FontNames[1], FontNames[2], FontNames[3]} :
          \E present \in SUBSET (1..len), devAt \in 0..len,
             devSize \in ImageSizes :
             /\ len < NINE => present = 1..len
             /\ M = margin_size \/ installed = {FontNames[1]}
             /\ devAt = 0 => devSize = size
             /\ devAt # 0 =>
                   /\ len = NINE /\ present = 1..len
                   /\ devSize # size
                   /\ installed \in {{}, {FontNames[1]}}
             /\ call = [fn |-> "create_grid_image",
                        images |-> ImageList(len, present, first, size,
                                             devAt, devSize),
                        hole_numbers |-> Range(first, first + NINE),
                        grid_size |-> grid_size,
                        margin_size |-> M,
                        installed |-> installed]
    /\ ret = None

CreateGrid ==
    /\ pc = "off"
    /\ call.fn = "create_grid_image"
    /\ ret = None
    /\ ret' = Some(create_grid_image(call.images, call.hole_numbers,
                                     call.grid_size, call.margin_size,
                                     call.installed))
    /\ UNCHANGED <<handlerVars, call>>

NextGrid == CreateGrid

SpecGrid == InitGrid /\ [][NextGrid]_vars

---------------------------------------------------------------------------
(* process_images_with_configurations *)

\* lines 210-219: one iteration of the loop for a row whose file exists and
\* whose green_config is truthy.  Image.open raises on a file that is no
\* image; an exception of the try block is reported and nothing is appended.
ProcessRow(row, file) ==
    IF file.corrupt
    THEN Raise("UnidentifiedImageError")
    ELSE draw_90_degree_lines(NewImage(file.hole, file.size),
                              row.green_config[1])

\* RowOutcome with the file of a row appended as it is, whatever its
\* green_config
RowOutcomeUnannotated(row, files) ==
    LET file == files[row.hole_number]
    IN  IF file # None /\ ~file[1].corrupt
        THEN [appended |-> <<Some(NewImage(file[1].hole, file[1].size))>>,
              errors |-> <<>>]
        ELSE [appended |-> <<None>>, errors |-> <<>>]

\* lines 207-221: one iteration of the loop: what it appends to
\* processed_images (nothing when the try block raised) and what it displays
RowOutcome(row, files) ==
    LET file == files[row.hole_number]
    IN  IF file # None /\ Truthy(row.green_config)
        THEN \* the bound r holds the outcome of the try block
             CHOOSE o \in
                {IF r.exc = None
                 THEN [appended |-> <<r.value>>, errors |-> <<>>]
                 ELSE [appended |-> <<>>,
                       errors |-> <<Message("error",
                                            "Error processing image for hole",
                                            row.hole_number)>>]
                 : r \in {ProcessRow(row, file[1])}} : TRUE
        ELSE [appended |-> <<None>>, errors |-> <<>>]

\* the lists outcomes[k][field], outcomes[k+1][field], .. joined in order
RECURSIVE Flatten(_, _, _)
Flatten(outcomes, field, k) ==
    IF k > Len(outcomes) THEN <<>>
    ELSE outcomes[k][field] \o Flatten(outcomes, field, k + 1)

\* line 223: holes_data['processed_image'] = processed_images raises
\* ValueError when the list is not as long as the DataFrame
AssignColumn(rows, processed_images) ==
    IF Len(processed_images) # Len(rows)
    THEN Raise("ValueError")
    ELSE Return([k \in 1..Len(rows) |->
            [rows[k] EXCEPT !.processed_image = processed_images[k]]])

\* lines 204-224: the outcome of the call and what st.error displayed
process_images_with_configurations(rows, files) ==
    CHOOSE result \in
       {[out |-> CHOOSE out \in
                    {AssignColumn(rows, processed_images) :
                       processed_images \in {Flatten(outcomes, "appended", 1)}}
                    : TRUE,
         errors |-> Flatten(outcomes, "errors", 1)]
        : outcomes \in {[k \in 1..Len(rows) |-> RowOutcome(rows[k], files)]}}
       : TRUE

---------------------------------------------------------------------------
(* create_pdf_with_grids *)

\* line 315: reportlab's letter page, in points
letter == <<612, 792>>

\* Floats are modelled as exact rationals <<numerator, denominator>> in
\* lowest terms with a positive denominator (rounding is not modelled).
RECURSIVE GCD(_, _)
GCD(a, b) == IF b = 0 THEN a ELSE GCD(b, a % b)

Rat(n, d) ==
    LET g == GCD(IF n < 0 THEN -n ELSE n, d)
    IN  <<n \div g, d \div g>>

RatAdd(a, b) == Rat(a[1] * b[2] + b[1] * a[2], a[2] * b[2])

RatSub(a, b) == Rat(a[1] * b[2] - b[1] * a[2], a[2] * b[2])

RatMul(a, b) == Rat(a[1] * b[1], a[2] * b[2])

RatLe(a, b) == a[1] * b[2] <= b[1] * a[2]

RatMin(a, b) == IF RatLe(a, b) THEN a ELSE b

\* lines 337-348 and 352-355: the rectangle an image is drawn in when the
\* scale factor is computed from a grid of size <<width, height>>
DrawRect(width, height) ==
    LET margin == 25
        top_text_space == 50
        available_width == letter[1] - 2 * margin
        available_height == letter[2] - 2 * margin - top_text_space
        scale_factor == RatMin(Rat(available_width, width),
                               Rat(available_height, height))
        scaled_width == RatMul(<<width, 1>>, scale_factor)
        scaled_height == RatMul(<<height, 1>>, scale_factor)
    IN  [scale_factor |-> scale_factor,
         x |-> RatAdd(<<margin, 1>>,
                      RatMul(RatSub(<<available_width, 1>>, scaled_width),
                             <<1, 2>>)),
         y |-> RatAdd(<<margin, 1>>,
                      RatMul(RatSub(<<available_height, 1>>, scaled_height),
                             <<1, 2>>)),
         width |-> scaled_width,
         height |-> scaled_height]

\* lines 350-364: one page: the header and the image in its rectangle
Page(header, grid, rect) == [header |-> header, image |-> grid, rect |-> rect]

\* lines 303-367: both pages are drawn in the rectangle computed from
\* front_grid.size
create_pdf_with_grids(front, back, header) ==
    <<Page(header, front, DrawRect(front.size[1], front.size[2])),
      Page(header, back, DrawRect(front.size[1], front.size[2]))>>

---------------------------------------------------------------------------
(* The rounds the remote service may hold *)

Holes == 1..(2 * NINE)

Desc == [i \in Holes |-> 2 * NINE + 1 - i]

Asc == [i \in Holes |-> i]

Rotate(seq, r) == [i \in 1..Len(seq) |-> seq[((i - 1 + r) % Len(seq)) + 1]]

\* the orders in which the service lists the greens of a round
Orderings == {Rotate(Desc, r) : r \in 0..MaxRot}
             \cup {Rotate(Asc, r) : r \in 0..MaxRot}

\* the numbers of greens listed
Counts == {0, 1, NINE, NINE + 1, 2 * NINE - 1, 2 * NINE}

\* a configuration with all four zones
FullConfiguration ==
    [hole_location |-> Some([origin |-> <<5, 10>>]),
     approach |-> Some([origin |-> <<0, 0>>, extent |-> <<5, 10>>]),
     go_for |-> Some([origin |-> <<5, 10>>, extent |-> <<0, 0>>]),
     crosshairs |-> Some([origin |-> <<0, 0>>, extent |-> <<5, 10>>])]

\* What the service answers for one green.  config is None when the
\* configuration request does not answer 200, else Some(parsed JSON);
\* image is None when the image request fails, else Some(file).
\*   ok                      a full configuration and an image
\*   no_config               the configuration request fails
\*   empty_config            the configuration response is {}
\*   no_green_configuration  the response lacks 'green_configuration'
\*   no_hole_location        the configuration lacks 'hole_location'
\*   no_image                the image request fails
\*   corrupt                 the downloaded file is not an image
Kinds == {"ok", "no_config", "empty_config", "no_green_configuration",
          "no_hole_location", "no_image", "corrupt"}

BaseKinds == {"ok", "no_config"}

Green(hole, kind, size) ==
    [hole_number |-> hole,
     config |->
        CASE kind = "no_config" -> None
          [] kind = "empty_config" -> Some(<<>>)
          [] kind = "no_green_configuration" -> Some([message |-> "not found"])
          [] kind = "no_hole_location" ->
                Some([green_configuration |->
                        [approach |-> FullConfiguration.approach]])
          [] OTHER -> Some([green_configuration |-> FullConfiguration]),
     image |->
        IF kind = "no_image" THEN None
        ELSE Some([hole |-> hole, size |-> size, corrupt |-> kind = "corrupt"])]

Header ==
    [event_name |-> "Event", course_name |-> "Course",
     round_name |-> "Round 1", date |-> "2025-01-01"]

\* The round listing the first n greens of ordering: the greens of holes
\* 1..9 are of kind front, those of holes 10..18 of kind back, all images
\* have the size size, except that entry devAt (if not 0) is of kind
\* devKind with an image of size devSize.
Round(ordering, n, front, back, size, devAt, devKind, devSize) ==
    [header |-> Header,
     greens |-> [i \in 1..n |->
        IF i = devAt
        THEN Green(ordering[i], devKind, devSize)
        ELSE Green(ordering[i],
                   IF ordering[i] <= NINE THEN front ELSE back, size)]]

---------------------------------------------------------------------------
(* The Generate PDF handler, lines 404-469 *)

\* Generate PDF has just been pressed for a round; the downloads folder
\* holds no file yet.  The round is uniform per nine (every green of holes
\* 1..9 of one kind, every green of holes 10..18 of one kind, one image
\* size) in any ordering and count, or it is the full round in descending
\* or ascending order with one green of another kind or image size.
Init ==
    /\ pc = "start"
    /\ \/ \E ordering \in Orderings, n \in Counts, front \in BaseKinds,
             back \in BaseKinds, size \in ImageSizes :
             api = Round(ordering, n, front, back, size, 0, "ok", size)
       \/ \E ordering \in {Desc, Asc}, devAt \in Holes, devKind \in Kinds,
             devSize \in ImageSizes :
             api = Round(ordering, 2 * NINE, "ok", "ok", <<10, 10>>,
                         devAt, devKind, devSize)
    /\ fonts \in SUBSET {FontNames[1], FontNames[2], FontNames[3]}
    /\ holes_data = None
    /\ disk = [h \in Holes |-> None]
    /\ front_nine = <<>>
    /\ back_nine = <<>>
    /\ front_grid = None
    /\ back_grid = None
    /\ pdf = None
    /\ messages = <<>>
    /\ raised = None
    /\ call = None
    /\ ret = None

\* line 411, get_course_data (lines 48-80): a DataFrame with one row per
\* green, in the order of the response, or None after an st.error
GetCourseData ==
    /\ pc = "start"
    /\ \/ /\ holes_data' = Some([i \in 1..Len(api.greens) |->
                [hole_number |-> api.greens[i].hole_number,
                 green_config |-> None,
                 processed_image |-> None]])
          /\ pc' = "configs"
          /\ UNCHANGED messages
       \/ /\ messages' = Append(messages,
                Message("error", "Failed to fetch course data", 0))
          /\ pc' = "done"
          /\ UNCHANGED holes_data
    /\ UNCHANGED <<api, fonts, disk, front_nine, back_nine, front_grid,
                   back_grid, pdf, raised, call, ret>>

\* lines 97-110: what get_green_configurations displays for row i
ConfigMessages(i) ==
    LET green == api.greens[i]
    IN  IF green.config = None
        THEN <<Message("error", "Failed to fetch configuration for Hole",
                       green.hole_number)>>
        ELSE IF "green_configuration" \notin DOMAIN green.config[1]
        THEN <<Message("warning", "Key 'green_configuration' not found",
                       green.hole_number)>>
        ELSE <<>>

\* line 414, get_green_configurations (lines 82-119): the response of each
\* request that answers 200 is stored in the row's green_config
GetGreenConfigurations ==
    /\ pc = "configs"
    /\ holes_data' = Some([i \in 1..Len(holes_data[1]) |->
          [holes_data[1][i] EXCEPT !.green_config = api.greens[i].config]])
    /\ messages' = messages \o Flatten([i \in 1..Len(holes_data[1]) |->
                                         [errors |-> ConfigMessages(i)]],
                                      "errors", 1)
    /\ pc' = "download"
    /\ UNCHANGED <<api, fonts, disk, front_nine, back_nine, front_grid,
                   back_grid, pdf, raised, call, ret>>

DownloadMessages(i) ==
    IF api.greens[i].image = None
    THEN <<Message("error", "Failed to download image for hole",
                   api.greens[i].hole_number)>>
    ELSE <<>>

\* line 417, download_green_images (lines 121-141): each image that
\* downloads is written to steelwood-<hole_number>.jpg
DownloadGreenImages ==
    /\ pc = "download"
    /\ disk' = [h \in Holes |->
          IF \E i \in 1..Len(api.greens) :
                api.greens[i].hole_number = h /\ api.greens[i].image # None
          THEN (CHOOSE im \in {api.greens[i].image : i \in 1..Len(api.greens)} :
                   im # None /\ im[1].hole = h)
          ELSE disk[h]]
    /\ messages' = messages \o Flatten([i \in 1..Len(api.greens) |->
                                         [errors |-> DownloadMessages(i)]],
                                      "errors", 1)
    /\ pc' = "process"
    /\ UNCHANGED <<api, fonts, holes_data, front_nine, back_nine, front_grid,
                   back_grid, pdf, raised, call, ret>>

\* line 420: an exception of process_images_with_configurations leaves the
\* handler
ProcessImages ==
    /\ pc = "process"
    /\ \E r \in {process_images_with_configurations(holes_data[1], disk)} :
           /\ messages' = messages \o r.errors
           /\ IF r.out.exc # None
              THEN /\ raised' = r.out.exc
                   /\ pc' = "done"
                   /\ UNCHANGED holes_data
              ELSE /\ holes_data' = r.out.value
                   /\ pc' = "split"
                   /\ UNCHANGED raised
    /\ UNCHANGED <<api, fonts, disk, front_nine, back_nine, front_grid,
                   back_grid, pdf, call, ret>>

Reverse(seq) == [i \in 1..Len(seq) |-> seq[Len(seq) + 1 - i]]

\* lines 422-434: the rows are reversed, and the first nine processed images
\* of the reversed list are the front nine, the others the back nine
SplitNines ==
    /\ pc = "split"
    /\ LET reversed == Reverse(holes_data[1])
           processed_images == [i \in 1..Len(reversed) |->
                                   reversed[i].processed_image]
       IN  /\ holes_data' = Some(reversed)
           /\ front_nine' = SubSeq(processed_images, 1,
                                   Min(NINE, Len(processed_images)))
           /\ back_nine' = SubSeq(processed_images, NINE + 1,
                                  Len(processed_images))
    /\ pc' = "grids"
    /\ UNCHANGED <<api, fonts, disk, front_grid, back_grid, pdf, messages,
                   raised, call, ret>>

\* lines 437-439: both grids are composed when neither list is empty; an
\* exception of create_grid_image leaves the handler
ComposeGrids ==
    /\ pc = "grids"
    /\ IF front_nine # <<>> /\ back_nine # <<>>
       THEN \E f \in {create_grid_image(front_nine, Range(1, 10),
                                         grid_size, margin_size, fonts)},
               b \in {create_grid_image(back_nine, Range(10, 19),
                                         grid_size, margin_size, fonts)} :
                IF f.out.exc # None
                THEN /\ raised' = f.out.exc
                     /\ messages' = messages \o f.errors
                     /\ pc' = "done"
                     /\ UNCHANGED <<front_grid, back_grid>>
                ELSE IF b.out.exc # None
                THEN /\ raised' = b.out.exc
                     /\ messages' = messages \o f.errors \o b.errors
                     /\ front_grid' = f.out.value[1]
                     /\ pc' = "done"
                     /\ UNCHANGED back_grid
                ELSE /\ front_grid' = f.out.value[1]
                     /\ back_grid' = b.out.value[1]
                     /\ messages' = messages \o f.errors \o b.errors
                     /\ pc' = "pdf"
                     /\ UNCHANGED raised
       ELSE /\ pc' = "done"
            /\ UNCHANGED <<front_grid, back_grid, messages, raised>>
    /\ UNCHANGED <<api, fonts, holes_data, disk, front_nine, back_nine, pdf,
                   call, ret>>

\* lines 441-452: the PDF is written when both grids were composed
GeneratePdf ==
    /\ pc = "pdf"
    /\ IF front_grid # None /\ back_grid # None
       THEN /\ pdf' = Some(create_pdf_with_grids(front_grid[1], back_grid[1],
                                                 api.header))
            /\ messages' = Append(messages,
                  Message("success", "Pin sheet generated successfully!", 0))
       ELSE UNCHANGED <<pdf, messages>>
    /\ pc' = "done"
    /\ UNCHANGED <<api, fonts, holes_data, disk, front_nine, back_nine,
                   front_grid, back_grid, raised, call, ret>>

Next ==
    \/ GetCourseData
    \/ GetGreenConfigurations
    \/ DownloadGreenImages
    \/ ProcessImages
    \/ SplitNines
    \/ ComposeGrids
    \/ GeneratePdf

Spec == Init /\ [][Next]_vars

\* the handler's runs together with the calls of create_grid_image on its own
SpecNine == (Init \/ InitGrid) /\ [][Next \/ NextGrid]_vars

---------------------------------------------------------------------------
(* Properties *)

\* create_grid_image was called on its own and the call is over
GridCallDone == pc = "off" /\ ret # None /\ call.fn = "create_grid_image"

\* the call returned a grid image
GridReturned ==
    /\ GridCallDone
    /\ ret[1].out.exc = None
    /\ ret[1].out.value[1] # None

ReturnedGrid == ret[1].out.value[1][1]

\* the grids the handler has composed so far
ComposedGrids ==
    (IF front_grid # None THEN {front_grid[1]} ELSE {})
    \cup (IF back_grid # None THEN {back_grid[1]} ELSE {})

CellsOf(grid) == {grid.cells[k] : k \in 1..Len(grid.cells)}

HasMessage(level, text) ==
    \E k \in 1..Len(messages) :
       messages[k].level = level /\ messages[k].text = text

\* an error reached the user: an exception left the handler or st.error
\* displayed something
ErrorSurfaced ==
    \/ raised # None
    \/ \E k \in 1..Len(messages) : messages[k].level = "error"

\* C1: whatever the order of the hole records, every image pasted into a
\* grid cell is the image of the hole whose number is on the cell's badge,
\* the front grid holds only holes 1..9 and the back grid only holes 10..18.
C1_BadgeIsHoleOfImage ==
    /\ \A grid \in ComposedGrids : \A cell \in CellsOf(grid) :
          cell.image.hole = cell.text
    /\ front_grid # None =>
          \A cell \in CellsOf(front_grid[1]) : cell.image.hole \in 1..9
    /\ back_grid # None =>
          \A cell \in CellsOf(back_grid[1]) : cell.image.hole \in 10..18

\* process_images_with_configurations has been called and a row's
\* processing raised inside its try block
SomeRowRaised ==
    HasMessage("error", "Error processing image for hole")

\* C3: when the processing of one hole's image raises, the batch continues:
\* process_images_with_configurations returns normally with one result per
\* hole record, each attached to its own record.
C3_BatchContinues ==
    SomeRowRaised =>
       /\ raised = None
       /\ holes_data # None
       /\ Len(holes_data[1]) = Len(api.greens)
       /\ \A k \in 1..Len(holes_data[1]) :
             LET row == holes_data[1][k]
             IN  row.processed_image # None =>
                    row.processed_image[1].hole = row.hole_number

\* C4: a generation run ends with a complete two-page document, front nine
\* first and back nine second, or with an error surfaced to the user; never
\* with neither.
C4_DocumentOrError ==
    pc = "done" =>
       \/ /\ pdf # None
          /\ Len(pdf[1]) = 2
          /\ front_grid # None /\ pdf[1][1].image = front_grid[1]
          /\ back_grid # None /\ pdf[1][2].image = back_grid[1]
       \/ /\ pdf = None
          /\ ErrorSurfaced

\* every hole of the round has an image and no green configuration (the
\* request failed or answered {}), and the records were fetched
NoConfigRound ==
    /\ holes_data # None
    /\ Len(api.greens) = 18
    /\ \A i \in 1..18 :
          /\ api.greens[i].image # None
          /\ ~api.greens[i].image[1].corrupt
          /\ api.greens[i].config \in {None, Some(<<>>)}

NoValidImagesCount ==
    Cardinality({k \in 1..Len(messages) :
                    messages[k].text = "No valid images to create a grid."})

BadgesOf(grid) == {cell.text : cell \in CellsOf(grid)}

\* C5 as claimed: 18 holes with an image and no configuration give, without
\* any overlay, two grids whose badges are 1..9 and 10..18.
C5_NoConfigTwoGrids ==
    (NoConfigRound /\ pc = "done") =>
       /\ front_grid # None
       /\ back_grid # None
       /\ BadgesOf(front_grid[1]) = 1..9
       /\ BadgesOf(back_grid[1]) = 10..18
       /\ \A grid \in ComposedGrids : \A cell \in CellsOf(grid) :
             cell.image.ops = <<>>

\* C5 amended: 18 holes with an image and no configuration get no overlay
\* and no processed image at all, so both nines are lists of None: each
\* create_grid_image call reports "No valid images to create a grid." and
\* returns None, and no grid and no document is produced.
C5_NoConfigNoGrids ==
    (NoConfigRound /\ pc = "done") =>
       /\ \A k \in 1..Len(holes_data[1]) :
             holes_data[1][k].processed_image = None
       /\ Len(front_nine) = 9 /\ Len(back_nine) = 9
       /\ front_grid = None
       /\ back_grid = None
       /\ NoValidImagesCount = 2
       /\ raised = None
       /\ pdf = None

C5_Witness ==
    /\ NoConfigRound
    /\ pc = "done"
    /\ \A i \in 1..18 : disk[i] # None
    /\ NoValidImagesCount = 2
    /\ pdf = None

AllNull(images) == \A k \in 1..Len(images) : images[k] = None

\* the handler has gone through lines 437-439 with two non-empty lists
GridsAttempted ==
    /\ pc \in {"pdf", "done"}
    /\ front_nine # <<>>
    /\ back_nine # <<>>

\* C7: composing a nine whose image list is empty or all None reports an
\* error and yields no grid image, and no document is produced for a round
\* with such a nine.
C7_EmptyNineNoDocument ==
    /\ (GridCallDone /\ AllNull(call.images)) =>
          /\ ~GridReturned
          /\ \E k \in 1..Len(ret[1].errors) : ret[1].errors[k].level = "error"
    /\ (GridsAttempted /\ AllNull(front_nine)) =>
          /\ front_grid = None
          /\ NoValidImagesCount >= 1
    /\ (GridsAttempted /\ AllNull(back_nine) /\ raised = None) =>
          /\ back_grid = None
          /\ NoValidImagesCount >= 1
    /\ (pc = "done" /\ (AllNull(front_nine) \/ AllNull(back_nine))) =>
          pdf = None

\* a run whose front nine is nine None and whose back nine was composed
C7_Witness ==
    /\ pc = "done"
    /\ Len(front_nine) = 9
    /\ AllNull(front_nine)
    /\ front_grid = None
    /\ back_grid # None
    /\ NoValidImagesCount = 1
    /\ pdf = None

\* C8: each page draws its own grid scaled by
\* min(availableWidth/gridWidth, availableHeight/gridHeight), the available
\* area being the letter page less 25pt margins and the 50pt header: the
\* rectangle keeps the grid's aspect ratio, fits the area and is centred
\* with equal space left on opposite sides.
C8_EachPageOwnScale ==
    pdf # None =>
       \A p \in 1..Len(pdf[1]) :
          LET gridW == pdf[1][p].image.size[1]
              gridH == pdf[1][p].image.size[2]
              rect == pdf[1][p].rect
              availW == 612 - 2 * 25
              availH == 792 - 2 * 25 - 50
              factor == IF availW * gridH <= availH * gridW
                        THEN Rat(availW, gridW)
                        ELSE Rat(availH, gridH)
              left == RatSub(rect.x, <<25, 1>>)
              bottom == RatSub(rect.y, <<25, 1>>)
          IN  /\ rect.width = RatMul(<<gridW, 1>>, factor)
              /\ rect.height = RatMul(<<gridH, 1>>, factor)
              /\ RatMul(rect.width, <<gridH, 1>>)
                    = RatMul(rect.height, <<gridW, 1>>)
              /\ RatLe(<<0, 1>>, left) /\ RatLe(<<0, 1>>, bottom)
              /\ RatAdd(RatAdd(left, left), rect.width) = <<availW, 1>>
              /\ RatAdd(RatAdd(bottom, bottom), rect.height) = <<availH, 1>>

---------------------------------------------------------------------------
(* Properties of create_grid_image called on its own *)

ValidIndices(images) == {k \in 1..Len(images) : images[k] # None}

\* the size of the first image of the list that is not None
FirstValidSize(images) ==
    images[CHOOSE k \in ValidIndices(images) :
              \A j \in ValidIndices(images) : k <= j][1].size

\* C2: with grid size 3 and margin M the canvas measures
\* (imgW*3 + M*4) by (imgH*3 + M*4), and the cell of slot i (the i-th hole
\* number, counted from 0) has its top-left pixel at
\* (M + (i div 3)*(imgW+M), M + (i mod 3)*(imgH+M)): column-major.
C2_ColumnMajorLayout ==
    GridReturned =>
       LET imgW == FirstValidSize(call.images)[1]
           imgH == FirstValidSize(call.images)[2]
           M == call.margin_size
       IN  /\ ReturnedGrid.size = <<imgW * 3 + M * 4, imgH * 3 + M * 4>>
           /\ \A cell \in CellsOf(ReturnedGrid) :
                 LET i == cell.text - call.hole_numbers[1]
                 IN  /\ i \in 0..8
                     /\ cell.idx = i
                     /\ cell.position = <<M + (i \div 3) * (imgW + M),
                                          M + (i % 3) * (imgH + M)>>

\* nine cells on a 20-pixel margin: the first at (20, 20), the fourth at the
\* top of the second column, the ninth at the bottom of the third
C2_Witness ==
    /\ GridReturned
    /\ call.margin_size = 20
    /\ Len(ReturnedGrid.cells) = 9
    /\ LET imgW == FirstValidSize(call.images)[1]
           imgH == FirstValidSize(call.images)[2]
       IN  /\ ReturnedGrid.cells[1].position = <<20, 20>>
           /\ ReturnedGrid.cells[4].position = <<20 + imgW + 20, 20>>
           /\ ReturnedGrid.cells[9].position =
                 <<20 + 2 * (imgW + 20), 20 + 2 * (imgH + 20)>>

\* C6: a slot whose image is None is left blank (nothing pasted, no badge),
\* the call does not fail, and every slot whose image is present is pasted
\* with its badge at the position of its own slot.
C6_NullSlotsLeftBlank ==
    (GridCallDone /\ ValidIndices(call.images) # {}) =>
       /\ GridReturned
       /\ LET imgW == FirstValidSize(call.images)[1]
              imgH == FirstValidSize(call.images)[2]
              M == call.margin_size
          IN  \A j \in 1..Len(call.hole_numbers) :
                 IF j \in ValidIndices(call.images)
                 THEN \E cell \in CellsOf(ReturnedGrid) :
                         /\ cell.idx = j - 1
                         /\ cell.image = call.images[j][1]
                         /\ cell.text = call.hole_numbers[j]
                         /\ cell.position =
                               <<M + ((j - 1) \div 3) * (imgW + M),
                                 M + ((j - 1) % 3) * (imgH + M)>>
                 ELSE \A cell \in CellsOf(ReturnedGrid) : cell.idx # j - 1

\* the image list index (0-based) at which the image of a cell is found
ShowsIndex(cell, j) ==
    /\ j \in 0..8
    /\ j + 1 <= Len(call.images)
    /\ call.images[j + 1] = Some(cell.image)

\* C10 as claimed: the cell with badge n shows the image at index n mod 9
\* when n > 9 and n - 1 otherwise, an index in 0..8.
C10_IndexIsModNine ==
    GridReturned =>
       \A cell \in CellsOf(ReturnedGrid) :
          LET n == cell.text
          IN  ShowsIndex(cell, IF n > 9 THEN n % 9 ELSE n - 1)

\* C10 amended: the cell with badge n shows the image at index n - 10 when
\* n > 9 and n - 1 otherwise, an index in 0..8 for every n in 1..18.
C10_IndexIsMinusTen ==
    /\ \A n \in 1..18 : image_idx(n) \in 0..8
    /\ GridReturned =>
          \A cell \in CellsOf(ReturnedGrid) :
             LET n == cell.text
             IN  /\ n \in 1..18
                 /\ ShowsIndex(cell, IF n > 9 THEN n - 10 ELSE n - 1)

\* a back nine composed from nine images: badge 10 shows the first image
\* of the list and badge 18 the ninth
C10_Witness ==
    /\ GridReturned
    /\ Len(ReturnedGrid.cells) = 9
    /\ ReturnedGrid.cells[1].text = 10
    /\ ShowsIndex(ReturnedGrid.cells[1], 0)
    /\ ReturnedGrid.cells[9].text = 18
    /\ ShowsIndex(ReturnedGrid.cells[9], 8)

\* the rectangle <<left, top, right, bottom>> of w by h pixels at pos
RectAt(pos, w, h) == <<pos[1], pos[2], pos[1] + w, pos[2] + h>>

RectInside(a, b) ==
    a[1] >= b[1] /\ a[2] >= b[2] /\ a[3] <= b[3] /\ a[4] <= b[4]

RectsDisjoint(a, b) ==
    a[3] <= b[1] \/ b[3] <= a[1] \/ a[4] <= b[2] \/ b[4] <= a[2]

\* the images of the list that are not None do not all measure what the
\* first of them measures
MixedSizes(images) ==
    \E k \in ValidIndices(images) :
       images[k][1].size # FirstValidSize(images)

\* C11: a list whose valid images do not all have the dimensions of the
\* first valid image gives an error and no grid; so in every grid returned
\* each pasted image lies inside its own cell (the rectangle of the first
\* valid image's dimensions at the slot's position), the pasted images do
\* not overlap, and every cell lies inside the canvas.
C11_MixedSizesRejected ==
    /\ (GridCallDone /\ ValidIndices(call.images) # {}
           /\ MixedSizes(call.images)) =>
          /\ ~GridReturned
          /\ ret[1].out.exc # None \/ ret[1].errors # <<>>
    /\ GridReturned =>
          LET imgW == FirstValidSize(call.images)[1]
              imgH == FirstValidSize(call.images)[2]
              canvas == RectAt(<<0, 0>>, ReturnedGrid.size[1],
                               ReturnedGrid.size[2])
              Cell(c) == RectAt(c.position, imgW, imgH)
              Pasted(c) == RectAt(c.position, c.image.size[1],
                                  c.image.size[2])
          IN  \A c \in CellsOf(ReturnedGrid) :
                 /\ RectInside(Pasted(c), Cell(c))
                 /\ RectInside(Cell(c), canvas)
                 /\ \A d \in CellsOf(ReturnedGrid) :
                       c.idx # d.idx =>
                          /\ RectsDisjoint(Cell(c), Cell(d))
                          /\ RectsDisjoint(Pasted(c), Pasted(d))

\* the font ImageFont.load_default() gives
DefaultFont == "<default>"

\* C12: whatever subset of the named fonts loads, a font is bound when the
\* badges are drawn: the call on a list that holds an image does not fail,
\* every badge is drawn with the first named font that loads, and with the
\* default font when none of the three loads.
C12_FontAlwaysBound ==
    (GridCallDone /\ ValidIndices(call.images) # {}) =>
       /\ ret[1].out.exc = None
       /\ GridReturned
       /\ \A c \in CellsOf(ReturnedGrid) :
             /\ c.font # Unbound
             /\ c.font \in call.installed \cup {DefaultFont}
             /\ c.font = DefaultFont <=> call.installed = {}

---------------------------------------------------------------------------
(* Properties of draw_90_degree_lines called on its own *)

\* the zone is a dict that holds the field
ZoneHolds(green_config, zone, field) ==
    /\ zone \in DOMAIN green_config
    /\ green_config[zone] # None
    /\ field \in DOMAIN green_config[zone][1]

Drawn(image, colors) ==
    \E k \in 1..Len(image.ops) :
       image.ops[k].fill \in colors \/ image.ops[k].outline \in colors

\* C9: the pin is drawn iff hole_location has an origin, and each of
\* approach, go_for and crosshairs iff it has both origin and extent; a zone
\* that is absent or partly present is skipped without aborting the others.
C9_ZonesIndependent ==
    (pc = "off" /\ ret # None /\ call.fn = "draw_90_degree_lines") =>
       LET green_config == call.config.green_configuration
           Both(zone) == /\ ZoneHolds(green_config, zone, "origin")
                         /\ ZoneHolds(green_config, zone, "extent")
       IN  /\ ret[1].exc = None
           /\ LET image == ret[1].value[1]
              IN  /\ Drawn(image, {"black"})
                        <=> ZoneHolds(green_config, "hole_location", "origin")
                  /\ Drawn(image, {"green"}) <=> Both("approach")
                  /\ Drawn(image, {"orange"}) <=> Both("go_for")
                  /\ Drawn(image, {"red"}) <=> Both("crosshairs")

====
